---- MODULE Spec2Model ----
(***************************************************************************)
(* gt blocked: the concurrent fan-out aggregation of blocked work items    *)
(* (internal/cmd/blocked.go).  One run of runBlocked: rig-filter check,    *)
(* one goroutine per selected source (query, lock, filter, append,         *)
(* unlock, wg.Done), the barrier wg.Wait, the two sorts, the summary and   *)
(* the rendering in JSON or human mode.                                    *)
(***************************************************************************)
EXTENDS Integers, Sequences, FiniteSets, TLC

VARIABLES
    blockedRig,    \* --rig flag ("" when absent)
    blockedJSON,   \* --json flag
    rigs,          \* names of the rigs (discovered, then filtered)
    pc,            \* position of the orchestrating flow in runBlocked
    task,          \* position of each source goroutine
    issues,        \* per goroutine: the issues returned by Blocked()
    qerr,          \* per goroutine: the error returned by Blocked() ("" = nil)
    formulaNames,  \* per goroutine: result of getFormulaNames (until it returns)
    wispIDs,       \* per goroutine: result of getWispIDs (until it returns)
    src,           \* per goroutine: the BlockedSource it built
    mu,            \* holder of the mutex, or NoTask
    wg,            \* WaitGroup counter
    sources,       \* the shared result slice
    summary,       \* BlockedSummary
    output,        \* what was written to stdout
    retErr         \* error returned by runBlocked (NoErr: none)

vars == <<blockedRig, blockedJSON, rigs, pc, task, issues, qerr, formulaNames,
          wispIDs, src, mu, wg, sources, summary, output, retErr>>

(***************************************************************************)
(* Bounds of the model.                                                    *)
(***************************************************************************)
\* at most this many rigs are discovered
MaxRigs == 2
\* at most this many blocked issues are returned by all stores together
\* while the goroutines are interleaved
MaxIssues == 1
\* the number of issues in the runs of the aggregation alone
MaxAggIssues == MaxIssues + 1
\* the longest raw list in the runs of a single source
MaxListLen == MaxIssues + 2

(***************************************************************************)
(* Strings.  Go compares strings bytewise; identifiers are kept as tuples  *)
(* of one-character strings so that strings.Contains can be computed.      *)
(***************************************************************************)
TownName == "town"

\* rig names that discovery may return (arbitrary strings for the command)
RigNames == {"alpha", "town", "zulu"}

\* the rigs discovered in the runs whose goroutines are interleaved
FanoutRigNames == {"alpha", "town"}

\* the names a --rig flag is given in the model
RigFlags == {"", "alpha", "town", "omega"}

Bytes(s) ==
    CASE s = "alpha" -> <<97, 108, 112, 104, 97>>
      [] s = "town"  -> <<116, 111, 119, 110>>
      [] s = "zulu"  -> <<122, 117, 108, 117>>
      [] s = "omega" -> <<111, 109, 101, 103, 97>>
      [] OTHER       -> <<>>

Min(a, b) == IF a < b THEN a ELSE b

\* Go's string '<': bytewise lexicographic order
StrLess(a, b) ==
    LET x == Bytes(a)
        y == Bytes(b)
        n == Min(Len(x), Len(y))
        Diff == {i \in 1..n : x[i] /= y[i]}
    IN  IF Diff = {} THEN Len(x) < Len(y)
        ELSE LET k == CHOOSE i \in Diff : \A j \in Diff : i <= j
             IN  x[k] < y[k]

\* strings.Contains
Contains(s, sub) ==
    \E i \in 1..(Len(s) - Len(sub) + 1) : SubSeq(s, i, i + Len(sub) - 1) = sub

WispMarker == <<"-", "w", "i", "s", "p", "-">>

(***************************************************************************)
(* Issues a store may report as blocked: identifier and priority.          *)
(***************************************************************************)
Issue(id, p) == [ID |-> id, Priority |-> p]

\* what a store may return while the goroutines run concurrently
IssuePool ==
    { Issue(<<"a", "1">>, 2),
      Issue(<<"f", ".", "s">>, 0),
      Issue(<<"a", "-", "w", "i", "s", "p", "-", "5">>, 1) }

\* error texts a failing Blocked() call may carry
ErrorTexts == {"bd blocked: exit status 1"}

\* what getFormulaNames / getWispIDs may return for a store
FormulaNameSets == {{}, {<<"f">>}}
WispIDSets == {{}, {<<"a", "1">>}}

Range(s) == {s[i] : i \in 1..Len(s)}

\* lists of at most n distinct issues of the pool
IssueLists(n) ==
    UNION { {s \in [1..k -> IssuePool] : \A i, j \in 1..k : i /= j => s[i] /= s[j]}
            : k \in 0..n }

(***************************************************************************)
(* Source goroutines.                                                      *)
(***************************************************************************)
TownTask == [kind |-> "town", name |-> TownName]
RigTask(r) == [kind |-> "rig", name |-> r]
Tasks == {TownTask} \cup {RigTask(r) : r \in RigNames}
NoTask == [kind |-> "none", name |-> ""]
\* BlockedSource; a nil Issues slice is the empty list
BlockedSource(name, iss, err) == [Name |-> name, Issues |-> iss, Error |-> err]
NoSrc == BlockedSource("", <<>>, "")

RECURSIVE SumOver(_, _)
SumOver(S, f) ==
    IF S = {} THEN 0
    ELSE LET x == CHOOSE y \in S : TRUE IN f[x] + SumOver(S \ {x}, f)

\* number of issues the stores have returned so far
Returned == SumOver(Tasks, [t \in Tasks |-> Len(issues[t])])

(***************************************************************************)
(* The filter pipeline.                                                    *)
(***************************************************************************)
\* index of the last "." of an identifier, 0 if none (strings.LastIndex + 1)
LastDot(id) ==
    LET D == {i \in 1..Len(id) : id[i] = "."}
    IN  IF D = {} THEN 0 ELSE CHOOSE i \in D : \A j \in D : j <= i

\* a scaffold: the identifier is a formula name, or <formula name>.<step>
IsScaffold(id, names) ==
    \/ id \in names
    \/ LastDot(id) > 1 /\ SubSeq(id, 1, LastDot(id) - 1) \in names

filterFormulaScaffolds(iss, names) ==
    IF names = {} THEN iss
    ELSE SelectSeq(iss, LAMBDA x : ~IsScaffold(x.ID, names))

filterWisps(iss, ids) == SelectSeq(iss, LAMBDA x : x.ID \notin ids)

\* a removal in place that, having dropped an issue, steps over the one
\* that follows it (mutation of filterWispsByID, for C18)
RECURSIVE filterWispsInPlace(_)
filterWispsInPlace(iss) ==
    IF iss = <<>> THEN <<>>
    ELSE IF Contains(Head(iss).ID, WispMarker)
    THEN IF Len(iss) >= 2
         THEN <<iss[2]>> \o filterWispsInPlace(SubSeq(iss, 3, Len(iss)))
         ELSE <<>>
    ELSE <<Head(iss)>> \o filterWispsInPlace(Tail(iss))

\* a filter that drops only the identifiers that begin with the marker
\* (mutation of filterWispsByID, for C12)
filterWispsByPrefix(iss) ==
    SelectSeq(iss, LAMBDA x : ~(/\ Len(x.ID) >= Len(WispMarker)
                                /\ SubSeq(x.ID, 1, Len(WispMarker)) = WispMarker))

filterWispsByID(iss) == SelectSeq(iss, LAMBDA x : ~Contains(x.ID, WispMarker))

\* a pipeline without the wisp-ID-set stage
\* (mutation of FilterPipeline, for C17)
FilterPipelineNoIDSet(iss, names, ids) ==
    filterWispsByID(filterFormulaScaffolds(iss, names))

\* lines 126-130 / 149-153: the three stages in order
FilterPipeline(iss, names, ids) ==
    filterWispsByID(filterWisps(filterFormulaScaffolds(iss, names), ids))

\* lines 122-131 / 145-154: the BlockedSource a goroutine builds from what
\* Blocked() returned and from the two lookups of the filter pipeline
BuildSource(name, iss, err, names, ids) ==
    IF err /= "" THEN BlockedSource(name, <<>>, err)
    ELSE BlockedSource(name, FilterPipeline(iss, names, ids), "")

(***************************************************************************)
(* sort.Slice.  The result is a permutation of the slice in which no       *)
(* element stands before one that is strictly less than it; the order of   *)
(* elements that less does not separate is not specified ("The sort is     *)
(* not guaranteed to be stable"), so every such permutation is an outcome. *)
(***************************************************************************)
Perms(n) == {p \in [1..n -> 1..n] : \A i, j \in 1..n : i /= j => p[i] /= p[j]}

Permute(s, p) == [i \in 1..Len(s) |-> s[p[i]]]

\* less is the comparator as the set of pairs <<a, b>> with less(a, b)
Separates(less, a, b) == <<a, b>> \in less /\ <<b, a>> \notin less

SortSlice(s, less) ==
    { r \in {Permute(s, p) : p \in Perms(Len(s))} :
        \A i, j \in 1..Len(r) : i < j => ~Separates(less, r[j], r[i]) }

\* lines 161-169: the comparator of the source sort
SourceLess(a, b) ==
    IF a.Name = TownName THEN TRUE
    ELSE IF b.Name = TownName THEN FALSE
    ELSE StrLess(a.Name, b.Name)

\* a comparator that clamps priorities into 0..4 before comparing them
\* (mutation of PriorityLess, for C5)
PriorityLessClamped(a, b) ==
    LET clamp(p) == IF p < 0 THEN 0 ELSE IF p > 4 THEN 4 ELSE p
    IN  clamp(a.Priority) < clamp(b.Priority)

\* lines 172-174: the comparator of the per-source issue sort
PriorityLess(a, b) == a.Priority < b.Priority

\* lines 171-175: every outcome of sorting each source's issues
RECURSIVE SortIssuesAll(_)
SortIssuesAll(ss) ==
    IF ss = <<>> THEN {<<>>}
    ELSE { <<[Head(ss) EXCEPT !.Issues = is]>> \o rest :
             is \in SortSlice(Head(ss).Issues,
                              {<<a, b>> \in Range(Head(ss).Issues) \X Range(Head(ss).Issues) :
                                 PriorityLess(a, b)}),
             rest \in SortIssuesAll(Tail(ss)) }

(***************************************************************************)
(* The summary, lines 177-198.                                             *)
(***************************************************************************)
EmptyMap == [n \in {} |-> 0]

ZeroSummary ==
    [Total |-> 0, BySource |-> EmptyMap,
     P0Count |-> 0, P1Count |-> 0, P2Count |-> 0, P3Count |-> 0, P4Count |-> 0]

\* a switch that counts every priority of 4 or more in the P4 bucket
\* (mutation of CountPriority, for C9)
CountPriorityClamped(sum, p) ==
    CASE p = 0 -> [sum EXCEPT !.P0Count = @ + 1]
      [] p = 1 -> [sum EXCEPT !.P1Count = @ + 1]
      [] p = 2 -> [sum EXCEPT !.P2Count = @ + 1]
      [] p = 3 -> [sum EXCEPT !.P3Count = @ + 1]
      [] p >= 4 -> [sum EXCEPT !.P4Count = @ + 1]
      [] OTHER -> sum

\* lines 185-196: the switch on issue.Priority
CountPriority(sum, p) ==
    CASE p = 0 -> [sum EXCEPT !.P0Count = @ + 1]
      [] p = 1 -> [sum EXCEPT !.P1Count = @ + 1]
      [] p = 2 -> [sum EXCEPT !.P2Count = @ + 1]
      [] p = 3 -> [sum EXCEPT !.P3Count = @ + 1]
      [] p = 4 -> [sum EXCEPT !.P4Count = @ + 1]
      [] OTHER -> sum

RECURSIVE CountPriorities(_, _)
CountPriorities(sum, iss) ==
    IF iss = <<>> THEN sum
    ELSE CountPriorities(CountPriority(sum, Head(iss).Priority), Tail(iss))

\* summary.BySource[name] = count
MapPut(m, k, v) == [n \in DOMAIN m \cup {k} |-> IF n = k THEN v ELSE m[n]]

\* an iteration that assigns the count to Total instead of adding it
\* (mutation of AddSource, for C7)
AddSourceOverwrite(sum, s) ==
    LET count == Len(s.Issues)
        counted == [sum EXCEPT !.Total = count,
                               !.BySource = [n \in DOMAIN @ \cup {s.Name} |->
                                               IF n = s.Name THEN count ELSE @[n]]]
    IN  CountPriorities(counted, s.Issues)

\* lines 181-197: one iteration of the loop over sources
AddSource(sum, s) ==
    LET count == Len(s.Issues)
        counted == [sum EXCEPT !.Total = @ + count,
                               !.BySource = MapPut(@, s.Name, count)]
    IN  CountPriorities(counted, s.Issues)

RECURSIVE Summarise(_, _)
Summarise(sum, ss) ==
    IF ss = <<>> THEN sum ELSE Summarise(AddSource(sum, Head(ss)), Tail(ss))

(***************************************************************************)
(* Rendering.  Standard output is a list of lines; a line is a record of   *)
(* what it shows.                                                          *)
(***************************************************************************)
BlockedResult(ss, sum) == [Sources |-> ss, Summary |-> sum, TownRoot |-> "/town"]

\* json tags of BlockedSource: `error` carries omitempty
EncodeSource(s) ==
    IF s.Error = "" THEN [name |-> s.Name, issues |-> s.Issues]
    ELSE [name |-> s.Name, issues |-> s.Issues, error |-> s.Error]

\* lines 206-210: enc.Encode(result)
EncodeResult(result) ==
    [sources   |-> [i \in 1..Len(result.Sources) |-> EncodeSource(result.Sources[i])],
     summary   |-> [total     |-> result.Summary.Total,
                    by_source |-> result.Summary.BySource,
                    p0_count  |-> result.Summary.P0Count,
                    p1_count  |-> result.Summary.P1Count,
                    p2_count  |-> result.Summary.P2Count,
                    p3_count  |-> result.Summary.P3Count,
                    p4_count  |-> result.Summary.P4Count],
     town_root |-> result.TownRoot]

\* lines 240-251: the style of the priority tag
PriorityStyle(p) ==
    CASE p = 0 -> "Error"
      [] p = 1 -> "Error"
      [] p = 2 -> "Warning"
      [] OTHER -> "Dim"

\* lines 239-264: one line per issue
IssueLines(iss) ==
    [i \in 1..Len(iss) |->
        [kind |-> "issue", priority |-> iss[i].Priority,
         style |-> PriorityStyle(iss[i].Priority), id |-> iss[i].ID]]

\* lines 223-266: the section of one source
SourceLines(s) ==
    IF s.Error /= "" THEN <<[kind |-> "error", name |-> s.Name, error |-> s.Error]>>
    ELSE IF Len(s.Issues) = 0 THEN <<>>
    ELSE <<[kind |-> "source", name |-> s.Name, count |-> Len(s.Issues),
            itemWord |-> IF Len(s.Issues) = 1 THEN "item" ELSE "items"]>>
         \o IssueLines(s.Issues) \o <<[kind |-> "blank"]>>

RECURSIVE AllSourceLines(_)
AllSourceLines(ss) ==
    IF ss = <<>> THEN <<>> ELSE SourceLines(Head(ss)) \o AllSourceLines(Tail(ss))

\* a list of all five buckets, the empty ones included
\* (mutation of TotalParts, for C19)
TotalPartsAll(sum) ==
    <<[n |-> sum.P0Count, p |-> "P0"], [n |-> sum.P1Count, p |-> "P1"],
      [n |-> sum.P2Count, p |-> "P2"], [n |-> sum.P3Count, p |-> "P3"],
      [n |-> sum.P4Count, p |-> "P4"]>>

\* lines 268-283: the non-zero buckets, in the order P0..P4
TotalParts(sum) ==
    (IF sum.P0Count > 0 THEN <<[n |-> sum.P0Count, p |-> "P0"]>> ELSE <<>>)
    \o (IF sum.P1Count > 0 THEN <<[n |-> sum.P1Count, p |-> "P1"]>> ELSE <<>>)
    \o (IF sum.P2Count > 0 THEN <<[n |-> sum.P2Count, p |-> "P2"]>> ELSE <<>>)
    \o (IF sum.P3Count > 0 THEN <<[n |-> sum.P3Count, p |-> "P3"]>> ELSE <<>>)
    \o (IF sum.P4Count > 0 THEN <<[n |-> sum.P4Count, p |-> "P4"]>> ELSE <<>>)

\* a rendering that prints the "no blocked work" line and does not return
\* (mutation of printBlockedHuman, for C13)
printBlockedHumanNoReturn(result) ==
    (IF result.Summary.Total = 0 THEN <<[kind |-> "none"]>> ELSE <<>>)
    \o <<[kind |-> "header"]>>
    \o AllSourceLines(result.Sources)
    \o <<[kind |-> "total", total |-> result.Summary.Total,
          parts |-> TotalParts(result.Summary)]>>

\* lines 215-292
printBlockedHuman(result) ==
    IF result.Summary.Total = 0 THEN <<[kind |-> "none"]>>
    ELSE <<[kind |-> "header"]>>
         \o AllSourceLines(result.Sources)
         \o <<[kind |-> "total", total |-> result.Summary.Total,
               parts |-> TotalParts(result.Summary)]>>

NoOutput == [mode |-> "none"]
NoErr == <<>>

(***************************************************************************)
(* The state after flag parsing and rig discovery (lines 76-92).           *)
(***************************************************************************)
Init ==
    /\ blockedRig \in RigFlags
    /\ blockedJSON \in BOOLEAN
    /\ rigs \in {R \in SUBSET FanoutRigNames : Cardinality(R) <= MaxRigs}
    /\ pc = "filter"
    /\ task = [t \in Tasks |-> "idle"]
    /\ issues = [t \in Tasks |-> <<>>]
    /\ qerr = [t \in Tasks |-> ""]
    /\ formulaNames = [t \in Tasks |-> {}]
    /\ wispIDs = [t \in Tasks |-> {}]
    /\ src = [t \in Tasks |-> NoSrc]
    /\ mu = NoTask
    /\ wg = 0
    /\ sources = <<>>
    /\ summary = ZeroSummary
    /\ output = NoOutput
    /\ retErr = NoErr

\* a filter that does not check for an empty match and goes on with no rig
\* (mutation of FilterRigs, for C10)
FilterRigsNoCheck ==
    /\ pc = "filter"
    /\ rigs' = IF blockedRig = "" THEN rigs ELSE {r \in rigs : r = blockedRig}
    /\ pc' = "town"
    /\ UNCHANGED <<blockedRig, blockedJSON, task, issues, qerr, formulaNames,
                   wispIDs, src, mu, wg, sources, summary, output, retErr>>

\* a filter that checks for a match but goes on with every discovered rig
\* (mutation of FilterRigs, for C11)
FilterRigsKeepAll ==
    /\ pc = "filter"
    /\ IF blockedRig /= "" /\ {r \in rigs : r = blockedRig} = {}
       THEN /\ retErr' = <<"rig not found: ", blockedRig>>
            /\ pc' = "failed"
       ELSE /\ pc' = "town"
            /\ UNCHANGED retErr
    /\ UNCHANGED <<blockedRig, blockedJSON, rigs, task, issues, qerr, formulaNames,
                   wispIDs, src, mu, wg, sources, summary, output>>

\* lines 94-106: the --rig filter
FilterRigs ==
    /\ pc = "filter"
    /\ LET filtered == {r \in rigs : r = blockedRig}
       IN  IF blockedRig = ""
           THEN /\ pc' = "town"
                /\ UNCHANGED <<rigs, retErr>>
           ELSE IF filtered = {}
           THEN /\ retErr' = <<"rig not found: ", blockedRig>>
                /\ pc' = "failed"
                /\ UNCHANGED rigs
           ELSE /\ rigs' = filtered
                /\ pc' = "town"
                /\ UNCHANGED retErr
    /\ UNCHANGED <<blockedRig, blockedJSON, task, issues, qerr, formulaNames,
                   wispIDs, src, mu, wg, sources, summary, output>>

\* lines 112-134: the town goroutine is started only without a --rig filter
LaunchTown ==
    /\ pc = "town"
    /\ IF blockedRig = ""
       THEN /\ wg' = wg + 1
            /\ task' = [task EXCEPT ![TownTask] = "blocked"]
       ELSE UNCHANGED <<wg, task>>
    /\ pc' = "rigs"
    /\ UNCHANGED <<blockedRig, blockedJSON, rigs, issues, qerr, formulaNames,
                   wispIDs, src, mu, sources, summary, output, retErr>>

\* lines 136-138: one goroutine per rig
LaunchRig(r) ==
    /\ pc = "rigs"
    /\ r \in rigs
    /\ task[RigTask(r)] = "idle"
    /\ wg' = wg + 1
    /\ task' = [task EXCEPT ![RigTask(r)] = "blocked"]
    /\ UNCHANGED <<blockedRig, blockedJSON, rigs, pc, issues, qerr, formulaNames,
                   wispIDs, src, mu, sources, summary, output, retErr>>

\* lines 116-118 / 140-141: Blocked() returns issues or an error
TaskBlocked(t) ==
    /\ task[t] = "blocked"
    /\ \/ \E e \in ErrorTexts :
            /\ qerr' = [qerr EXCEPT ![t] = e]
            /\ UNCHANGED issues
       \/ \E l \in IssueLists(MaxIssues - Returned) :
            /\ issues' = [issues EXCEPT ![t] = l]
            /\ UNCHANGED qerr
    /\ task' = [task EXCEPT ![t] = "lock"]
    /\ UNCHANGED <<blockedRig, blockedJSON, rigs, pc, formulaNames, wispIDs, src,
                   mu, wg, sources, summary, output, retErr>>

\* lines 120 / 143: mu.Lock()
TaskLock(t) ==
    /\ task[t] = "lock"
    /\ mu = NoTask
    /\ mu' = t
    /\ task' = [task EXCEPT ![t] = "locked"]
    /\ UNCHANGED <<blockedRig, blockedJSON, rigs, pc, issues, qerr, formulaNames,
                   wispIDs, src, wg, sources, summary, output, retErr>>

\* an append that starts again from the empty slice
\* (mutation of TaskRecord, for C14)
TaskRecordOverwrite(t) ==
    /\ task[t] = "locked"
    /\ IF qerr[t] /= ""
       THEN /\ src' = [src EXCEPT ![t] = BuildSource(t.name, issues[t], qerr[t], {}, {})]
            /\ UNCHANGED <<formulaNames, wispIDs>>
       ELSE \E fn \in FormulaNameSets, w \in WispIDSets :
            /\ formulaNames' = [formulaNames EXCEPT ![t] = fn]
            /\ wispIDs' = [wispIDs EXCEPT ![t] = w]
            /\ src' = [src EXCEPT ![t] = BuildSource(t.name, issues[t], "", fn, w)]
    /\ sources' = <<src'[t]>>
    /\ task' = [task EXCEPT ![t] = "appended"]
    /\ UNCHANGED <<blockedRig, blockedJSON, rigs, pc, issues, qerr, mu, wg,
                   summary, output, retErr>>

\* lines 122-132 / 145-155: build the BlockedSource and append it
TaskRecord(t) ==
    /\ task[t] = "locked"
    /\ IF qerr[t] /= ""
       THEN /\ src' = [src EXCEPT ![t] = BuildSource(t.name, issues[t], qerr[t], {}, {})]
            /\ UNCHANGED <<formulaNames, wispIDs>>
       ELSE \E fn \in FormulaNameSets, w \in WispIDSets :
            /\ formulaNames' = [formulaNames EXCEPT ![t] = fn]
            /\ wispIDs' = [wispIDs EXCEPT ![t] = w]
            /\ src' = [src EXCEPT ![t] = BuildSource(t.name, issues[t], "", fn, w)]
    /\ sources' = Append(sources, src'[t])
    /\ task' = [task EXCEPT ![t] = "appended"]
    /\ UNCHANGED <<blockedRig, blockedJSON, rigs, pc, issues, qerr, mu, wg,
                   summary, output, retErr>>

\* a goroutine that returns without releasing the mutex
\* (mutation of TaskUnlock, for C20)
TaskUnlockMissing(t) ==
    /\ task[t] = "appended"
    /\ task' = [task EXCEPT ![t] = "unlocked"]
    /\ UNCHANGED <<blockedRig, blockedJSON, rigs, pc, issues, qerr, formulaNames,
                   wispIDs, src, mu, wg, sources, summary, output, retErr>>

\* lines 121 / 144: the deferred mu.Unlock()
TaskUnlock(t) ==
    /\ task[t] = "appended"
    /\ mu' = NoTask
    /\ task' = [task EXCEPT ![t] = "unlocked"]
    /\ UNCHANGED <<blockedRig, blockedJSON, rigs, pc, issues, qerr, formulaNames,
                   wispIDs, src, wg, sources, summary, output, retErr>>

\* lines 115 / 139: the deferred wg.Done(); the goroutine returns
TaskDone(t) ==
    /\ task[t] = "unlocked"
    /\ wg' = wg - 1
    /\ task' = [task EXCEPT ![t] = "done"]
    /\ formulaNames' = [formulaNames EXCEPT ![t] = {}]
    /\ wispIDs' = [wispIDs EXCEPT ![t] = {}]
    /\ UNCHANGED <<blockedRig, blockedJSON, rigs, pc, issues, qerr, src, mu,
                   sources, summary, output, retErr>>

\* a wait that returns when the loop has ended, whatever the counter
\* (mutation of Wait, for C15)
WaitNoCounter ==
    /\ pc = "rigs"
    /\ \A r \in rigs : task[RigTask(r)] /= "idle"
    /\ pc' = "aggregate"
    /\ UNCHANGED <<blockedRig, blockedJSON, rigs, task, issues, qerr, formulaNames,
                   wispIDs, src, mu, wg, sources, summary, output, retErr>>

\* line 159: wg.Wait() returns once the loop has ended and the counter is zero
Wait ==
    /\ pc = "rigs"
    /\ \A r \in rigs : task[RigTask(r)] /= "idle"
    /\ wg = 0
    /\ pc' = "aggregate"
    /\ UNCHANGED <<blockedRig, blockedJSON, rigs, task, issues, qerr, formulaNames,
                   wispIDs, src, mu, wg, sources, summary, output, retErr>>

\* lines 161-198: after the barrier the sources are sorted, then the issues
\* of each source, and the summary is computed over the sorted result
Aggregate ==
    /\ pc = "aggregate"
    /\ \E sorted \in SortSlice(sources,
                               {<<a, b>> \in Range(sources) \X Range(sources) :
                                  SourceLess(a, b)}) :
         sources' \in SortIssuesAll(sorted)
    /\ summary' = Summarise(ZeroSummary, sources')
    /\ pc' = "emit"
    /\ UNCHANGED <<blockedRig, blockedJSON, rigs, task, issues, qerr, formulaNames,
                   wispIDs, src, mu, wg, output, retErr>>

\* lines 200-212
Emit ==
    /\ pc = "emit"
    /\ LET result == BlockedResult(sources, summary)
       IN  output' = IF blockedJSON
                     THEN [mode |-> "json", doc |-> EncodeResult(result)]
                     ELSE [mode |-> "human", lines |-> printBlockedHuman(result)]
    /\ pc' = "done"
    /\ UNCHANGED <<blockedRig, blockedJSON, rigs, task, issues, qerr, formulaNames,
                   wispIDs, src, mu, wg, sources, summary, retErr>>

Next ==
    \/ FilterRigs
    \/ LaunchTown
    \/ \E r \in RigNames : LaunchRig(r)
    \/ \E t \in Tasks : TaskBlocked(t)
    \/ \E t \in Tasks : TaskLock(t)
    \/ \E t \in Tasks : TaskRecord(t)
    \/ \E t \in Tasks : TaskUnlock(t)
    \/ \E t \in Tasks : TaskDone(t)
    \/ Wait
    \/ Aggregate
    \/ Emit

Spec == Init /\ [][Next]_vars

\* The Go scheduler runs a goroutine that can run, mu.Lock returns to a
\* waiter when the mutex is free, and every store access is taken to return:
\* as long as some step is possible, a step is eventually taken.
Fairness == WF_vars(Next)

SpecFair == Init /\ [][Next]_vars /\ Fairness

(***************************************************************************)
(* The aggregation alone: the runs are started at the barrier, with the    *)
(* goroutines returned and their results appended in some order, so that   *)
(* the sorts, the summary and the rendering are applied to a wider range   *)
(* of issues than the interleaved runs carry.                              *)
(***************************************************************************)
\* issues that pass the filter pipeline, of every priority class
AggPool ==
    { Issue(<<"a", "0">>, -1),
      Issue(<<"a", "1">>, 0),
      Issue(<<"a", "2">>, 1),
      Issue(<<"a", "3">>, 2),
      Issue(<<"a", "4">>, 2),
      Issue(<<"a", "5">>, 3),
      Issue(<<"a", "6">>, 4),
      Issue(<<"a", "9">>, 5) }

\* lists of exactly k distinct issues
AggLists(k) ==
    {s \in [1..k -> AggPool] : \A i, j \in 1..k : i /= j => s[i] /= s[j]}

\* what Blocked() returned in a goroutine: an error, or k issues
NoResult == [issues |-> <<>>, err |-> ""]
Failures == {[issues |-> <<>>, err |-> e] : e \in ErrorTexts}
Successes(k) == {[issues |-> l, err |-> ""] : l \in AggLists(k)}

\* the results of the goroutines L, at most n issues together
RECURSIVE Outcomes(_, _)
Outcomes(L, n) ==
    IF L = {} THEN {[t \in Tasks |-> NoResult]}
    ELSE LET t == CHOOSE x \in L : TRUE
         IN  {[f EXCEPT ![t] = o] : f \in Outcomes(L \ {t}, n), o \in Failures}
             \cup UNION { {[f EXCEPT ![t] = o] :
                             f \in Outcomes(L \ {t}, n - k), o \in Successes(k)}
                          : k \in 0..n }

\* the rigs discovered in these runs: none, or any one rig
AggRigSets == {{}} \cup {{r} : r \in RigNames}

\* the goroutines of a run: lines 112 and 136
Launched(flag, rs) ==
    (IF flag = "" THEN {TownTask} ELSE {}) \cup {RigTask(r) : r \in rs}

\* the orders in which the goroutines L may have appended
Orders(L) ==
    {o \in [1..Cardinality(L) -> L] :
        \A i, j \in 1..Cardinality(L) : i /= j => o[i] /= o[j]}

InitAgg ==
    /\ blockedJSON \in BOOLEAN
    /\ \E discovered \in AggRigSets :
         /\ blockedRig \in {""} \cup discovered
         /\ rigs = IF blockedRig = "" THEN discovered ELSE {blockedRig}
    /\ \E out \in Outcomes(Launched(blockedRig, rigs), MaxAggIssues) :
         /\ issues = [t \in Tasks |-> out[t].issues]
         /\ qerr = [t \in Tasks |-> out[t].err]
    /\ task = [t \in Tasks |->
                 IF t \in Launched(blockedRig, rigs) THEN "done" ELSE "idle"]
    /\ src = [t \in Tasks |->
                 IF t \in Launched(blockedRig, rigs)
                 THEN BuildSource(t.name, issues[t], qerr[t], {}, {})
                 ELSE NoSrc]
    /\ \E o \in Orders(Launched(blockedRig, rigs)) :
         sources = [i \in 1..Len(o) |-> src[o[i]]]
    /\ pc = "aggregate"
    /\ formulaNames = [t \in Tasks |-> {}]
    /\ wispIDs = [t \in Tasks |-> {}]
    /\ mu = NoTask
    /\ wg = 0
    /\ summary = ZeroSummary
    /\ output = NoOutput
    /\ retErr = NoErr

NextAgg ==
    \/ Aggregate
    \/ Emit

SpecAgg == InitAgg /\ [][NextAgg]_vars

(***************************************************************************)
(* A single source: the runs are started where the one goroutine of the    *)
(* run (the town goroutine without rigs, or the rig goroutine under a      *)
(* --rig flag) holds the mutex with the result of its query, which is an   *)
(* error or any list, repeated issues, scaffolds and several "-wisp-"      *)
(* identifiers included.                                                   *)
(***************************************************************************)
\* issues for the three stages: a plain identifier, a step of formula "f",
\* an identifier that holds the marker, one that is the marker, and one
\* that holds all of the marker but its last "-"
WispPool ==
    { Issue(<<"a", "1">>, 2),
      Issue(<<"f", ".", "s">>, 0),
      Issue(<<"a", "-", "w", "i", "s", "p", "-", "5">>, 1),
      Issue(<<"-", "w", "i", "s", "p", "-">>, 0),
      Issue(<<"x", "-", "w", "i", "s", "p">>, 3) }

\* every list of at most n issues of the pool
WispLists(n) == UNION {[1..k -> WispPool] : k \in 0..n}

InitFilter ==
    /\ blockedJSON \in BOOLEAN
    /\ \E t0 \in Tasks :
         /\ blockedRig = IF t0 = TownTask THEN "" ELSE t0.name
         /\ rigs = IF t0 = TownTask THEN {} ELSE {t0.name}
         /\ task = [t \in Tasks |-> IF t = t0 THEN "locked" ELSE "idle"]
         /\ mu = t0
         /\ \E o \in Failures \cup {[issues |-> l, err |-> ""] : l \in WispLists(MaxListLen)} :
              /\ issues = [t \in Tasks |-> IF t = t0 THEN o.issues ELSE <<>>]
              /\ qerr = [t \in Tasks |-> IF t = t0 THEN o.err ELSE ""]
    /\ pc = "rigs"
    /\ formulaNames = [t \in Tasks |-> {}]
    /\ wispIDs = [t \in Tasks |-> {}]
    /\ src = [t \in Tasks |-> NoSrc]
    /\ wg = 1
    /\ sources = <<>>
    /\ summary = ZeroSummary
    /\ output = NoOutput
    /\ retErr = NoErr

NextFilter ==
    \/ \E t \in Tasks : TaskRecord(t)
    \/ \E t \in Tasks : TaskUnlock(t)
    \/ \E t \in Tasks : TaskDone(t)
    \/ Wait
    \/ Aggregate
    \/ Emit

SpecFilter == InitFilter /\ [][NextFilter]_vars

(***************************************************************************)
(* Properties.                                                             *)
(***************************************************************************)
\* the goroutines that were started
LaunchedNow == {t \in Tasks : task[t] /= "idle"}

\* the report has been assembled (sorted and summarised)
Aggregated == pc \in {"emit", "done"}

\* a source entry up to the order of its issues
EntryKey(e) == [Name |-> e.Name, Error |-> e.Error, Items |-> Range(e.Issues)]

\* rig names in ascending order
RECURSIVE SortedRigNames(_)
SortedRigNames(S) ==
    IF S = {} THEN <<>>
    ELSE LET m == CHOOSE x \in S : \A y \in S \ {x} : StrLess(x, y)
         IN  <<m>> \o SortedRigNames(S \ {m})

\* the town goroutine's entry, then the rig goroutines' entries by name
ExpectedOrder ==
    (IF task[TownTask] /= "idle" THEN <<EntryKey(src[TownTask])>> ELSE <<>>)
    \o [i \in 1..Cardinality(rigs) |-> EntryKey(src[RigTask(SortedRigNames(rigs)[i])])]

\* C1: whatever the order in which the goroutines appended, the final sources
\* list is the town source's entry first, then the rigs' entries in ascending
\* name order.
C1_SourcesOrder ==
    Aggregated => [i \in 1..Len(sources) |-> EntryKey(sources[i])] = ExpectedOrder

\* number of issues of priority k in a list
CountPri(iss, k) == Cardinality({i \in 1..Len(iss) : iss[i].Priority = k})

\* bucket k of a summary
Bucket(sum, k) ==
    CASE k = 0 -> sum.P0Count
      [] k = 1 -> sum.P1Count
      [] k = 2 -> sum.P2Count
      [] k = 3 -> sum.P3Count
      [] k = 4 -> sum.P4Count

\* the goroutines whose query succeeded
Succeeded == {t \in LaunchedNow : qerr[t] = ""}

\* C2: a failed query is contained.  The failing source's entry carries the
\* error and no issues and counts 0 in total, by_source and every bucket; every
\* other source's entry is the result of its own query and filtering.
C2_FailureContained ==
    /\ \A t \in Tasks : task[t] \in {"appended", "unlocked"} =>
          src[t] = BuildSource(t.name, issues[t], qerr[t], formulaNames[t], wispIDs[t])
    /\ Aggregated =>
          /\ \A t \in LaunchedNow :
                /\ \E i \in 1..Len(sources) : EntryKey(sources[i]) = EntryKey(src[t])
                /\ qerr[t] /= "" =>
                      /\ src[t].Error = qerr[t]
                      /\ src[t].Issues = <<>>
                      /\ summary.BySource[t.name] = 0
          /\ summary.Total = SumOver(Succeeded, [t \in Tasks |-> Len(src[t].Issues)])
          /\ \A k \in 0..4 :
                Bucket(summary, k)
                    = SumOver(Succeeded, [t \in Tasks |-> CountPri(src[t].Issues, k)])

\* the lines of one kind
LinesOf(lines, kind) == SelectSeq(lines, LAMBDA l : l.kind = kind)

\* the sources that carry an error, in report order
Errored(ss) == SelectSeq(ss, LAMBDA e : e.Error /= "")

\* C3: every source entry that carries an error is rendered in both modes: in
\* human mode as a line with its name and error text and without an issue
\* list, in JSON mode in the entry's error field.
C3_ErrorsRendered ==
    pc = "done" =>
        IF output.mode = "human"
        THEN /\ LinesOf(output.lines, "error")
                  = [i \in 1..Len(Errored(sources)) |->
                       [kind |-> "error", name |-> Errored(sources)[i].Name,
                        error |-> Errored(sources)[i].Error]]
             /\ Len(LinesOf(output.lines, "source"))
                  = Cardinality({i \in 1..Len(sources) :
                       sources[i].Error = "" /\ Len(sources[i].Issues) > 0})
        ELSE \A i \in 1..Len(sources) :
                sources[i].Error /= "" =>
                    /\ "error" \in DOMAIN output.doc.sources[i]
                    /\ output.doc.sources[i].error = sources[i].Error
                    /\ output.doc.sources[i].name = sources[i].Name

\* a stable sort by priority: each issue is inserted behind the issues of
\* lower or equal priority
RECURSIVE InsertStable(_, _)
InsertStable(sorted, x) ==
    IF sorted = <<>> THEN <<x>>
    ELSE IF x.Priority < Head(sorted).Priority THEN <<x>> \o sorted
    ELSE <<Head(sorted)>> \o InsertStable(Tail(sorted), x)

RECURSIVE StableSort(_)
StableSort(iss) ==
    IF iss = <<>> THEN <<>>
    ELSE InsertStable(StableSort(SubSeq(iss, 1, Len(iss) - 1)), iss[Len(iss)])

\* C4: within every source the issues are in ascending priority order and
\* issues of equal priority keep the order the filter pipeline gave them.
C4_StableOrder ==
    Aggregated =>
        \A t \in LaunchedNow :
            \E i \in 1..Len(sources) :
                /\ sources[i].Name = t.name
                /\ sources[i].Error = src[t].Error
                /\ sources[i].Issues = StableSort(src[t].Issues)

\* non-decreasing priority
SortedByPriority(iss) ==
    \A i, j \in 1..Len(iss) : i < j => iss[i].Priority <= iss[j].Priority

\* the same issues, each as often
IsPermutation(a, b) ==
    /\ Len(a) = Len(b)
    /\ \A x \in Range(a) \cup Range(b) :
          Cardinality({i \in 1..Len(a) : a[i] = x})
              = Cardinality({i \in 1..Len(b) : b[i] = x})

\* C5: in the final report every source's issues are in non-decreasing
\* priority order, out-of-range priorities included, and are a permutation of
\* the issues the source's goroutine recorded after filtering.
C5_SortedPermutation ==
    Aggregated =>
        /\ \A i \in 1..Len(sources) : SortedByPriority(sources[i].Issues)
        /\ Len(sources) = Cardinality(LaunchedNow)
        /\ \A t \in LaunchedNow :
              \E i \in 1..Len(sources) :
                  /\ sources[i].Name = t.name
                  /\ sources[i].Error = src[t].Error
                  /\ IsPermutation(sources[i].Issues, src[t].Issues)

\* a source recorded its issues out of priority order, one of them with a
\* priority outside 0..4, and the report is assembled
C5_Witness ==
    /\ Aggregated
    /\ \E t \in LaunchedNow :
          /\ ~SortedByPriority(src[t].Issues)
          /\ \E i \in 1..Len(src[t].Issues) : src[t].Issues[i].Priority \notin 0..4

\* all issues of the report, in the order they are listed
RECURSIVE Flatten(_)
Flatten(ss) == IF ss = <<>> THEN <<>> ELSE Head(ss).Issues \o Flatten(Tail(ss))

\* C6: across the whole report the issues are listed by priority, most urgent
\* first; the source only orders issues of equal priority.
C6_GlobalPriorityOrder == Aggregated => SortedByPriority(Flatten(sources))

\* sum of the issue counts of the sources without error
RECURSIVE TotalOf(_)
TotalOf(ss) ==
    IF ss = <<>> THEN 0
    ELSE (IF Head(ss).Error = "" THEN Len(Head(ss).Issues) ELSE 0) + TotalOf(Tail(ss))

\* C7: summary.total is the sum of the issue counts over the sources that
\* have no error; a source that errored adds nothing.
C7_TotalIsSum ==
    Aggregated =>
        /\ summary.Total = TotalOf(sources)
        /\ summary.Total = SumOver(Succeeded, [t \in Tasks |-> Len(src[t].Issues)])

\* a report with an errored source next to a source that has issues
C7_Witness ==
    /\ Aggregated
    /\ \E i, j \in 1..Len(sources) :
          sources[i].Error /= "" /\ Len(sources[j].Issues) > 0

\* C8: by_source maps the name of every source entry of the report to the
\* number of issues of that entry.
C8_BySourceExact ==
    Aggregated =>
        \A i \in 1..Len(sources) :
            /\ sources[i].Name \in DOMAIN summary.BySource
            /\ summary.BySource[sources[i].Name] = Len(sources[i].Issues)

\* the sum of the five buckets
BucketSum(sum) ==
    sum.P0Count + sum.P1Count + sum.P2Count + sum.P3Count + sum.P4Count

\* C9: bucket Pk counts the issues of the report with priority exactly k, for
\* k in 0..4; the buckets add up to at most total, and to total exactly when
\* no issue has a priority outside 0..4.
C9_Buckets ==
    Aggregated =>
        /\ \A k \in 0..4 : Bucket(summary, k) = CountPri(Flatten(sources), k)
        /\ BucketSum(summary) <= summary.Total
        /\ BucketSum(summary) = summary.Total
              <=> \A i \in 1..Len(Flatten(sources)) :
                     Flatten(sources)[i].Priority \in 0..4

\* a report holding an issue of priority above 4 next to one in 0..4
C9_Witness ==
    /\ Aggregated
    /\ \E i, j \in 1..Len(Flatten(sources)) :
          /\ Flatten(sources)[i].Priority > 4
          /\ Flatten(sources)[j].Priority \in 0..4
    /\ BucketSum(summary) < summary.Total

\* the --rig flag names no discovered rig (after a match rigs = {blockedRig})
NoSuchRig == blockedRig /= "" /\ blockedRig \notin rigs

\* C10: with a --rig flag that names no discovered rig the command fails
\* with "rig not found" and nothing else happens: no goroutine is started, the
\* result slice stays empty and nothing is written in either mode.
C10_RigNotFound ==
    /\ NoSuchRig =>
          /\ pc \in {"filter", "failed"}
          /\ \A t \in Tasks : task[t] = "idle" /\ issues[t] = <<>> /\ qerr[t] = ""
          /\ wg = 0
          /\ sources = <<>>
          /\ output = NoOutput
    /\ pc = "failed" <=> retErr = <<"rig not found: ", blockedRig>>
    /\ pc = "failed" => NoSuchRig

\* the command has failed on a rig name that matches none of the discovered rigs
C10_Witness == pc = "failed" /\ NoSuchRig /\ rigs /= {}

\* the goroutines the rig filter selects: all of them without a filter, the
\* one matching rig's with a filter
Selected ==
    IF blockedRig = "" THEN {TownTask} \cup {RigTask(r) : r \in rigs}
    ELSE {RigTask(r) : r \in rigs \cap {blockedRig}}

\* the goroutines whose recorded entry equals e up to the order of its issues
Recorders(e) == {t \in LaunchedNow : EntryKey(src[t]) = EntryKey(e)}

\* the positions of the result slice that hold e up to the order of its issues
Holders(e) == {i \in 1..Len(sources) : EntryKey(sources[i]) = EntryKey(e)}

\* the barrier has been passed
PastBarrier == pc \in {"aggregate", "emit", "done"}

\* the sources queried are the selected ones, and the report holds their
\* entries and no other
QueriedAreSelected ==
    /\ LaunchedNow \subseteq Selected
    /\ blockedRig /= "" =>
          /\ LaunchedNow \subseteq {RigTask(blockedRig)}
          /\ task[TownTask] = "idle"
          /\ issues[TownTask] = <<>> /\ qerr[TownTask] = "" /\ src[TownTask] = NoSrc
          /\ blockedRig /= TownName =>
                \A i \in 1..Len(sources) : sources[i].Name /= TownName
    /\ PastBarrier =>
          /\ LaunchedNow = Selected
          /\ Len(sources) = Cardinality(Selected)
          /\ \A i \in 1..Len(sources) :
                Cardinality(Holders(sources[i])) = Cardinality(Recorders(sources[i]))

\* C11: the rig filter determines the queried sources.  Without a filter the
\* discovered rigs are all kept and the town source and every rig are queried;
\* with a filter that matches, only the matching rig is queried, the town
\* source is not queried and the report holds no entry of it.
C11_FilterSelectsSources ==
    /\ []QueriedAreSelected
    /\ [][/\ blockedRig' = blockedRig
          /\ rigs' \subseteq rigs
          /\ blockedRig = "" => rigs' = rigs]_vars

\* a report was written for the rig the filter selected
C11_Witness ==
    /\ pc = "done"
    /\ blockedRig = "alpha"
    /\ output /= NoOutput
    /\ Len(sources) = 1 /\ sources[1].Name = "alpha"
    /\ task[RigTask("town")] = "idle"

\* a list holds an issue whose identifier contains "-wisp-"
HasWisp(iss) == \E i \in 1..Len(iss) : Contains(iss[i].ID, WispMarker)

\* C12: no issue whose identifier contains "-wisp-" is in any source's list of
\* the report, nor in the JSON document or the human output, whatever the
\* stores returned and whatever getWispIDs returned.
C12_NoWispInReport ==
    /\ \A i \in 1..Len(sources) : ~HasWisp(sources[i].Issues)
    /\ output.mode = "json" =>
          \A i \in 1..Len(output.doc.sources) : ~HasWisp(output.doc.sources[i].issues)
    /\ output.mode = "human" =>
          \A i \in 1..Len(output.lines) :
              output.lines[i].kind = "issue" => ~Contains(output.lines[i].id, WispMarker)

\* a store returned a "-wisp-" issue next to an issue that stays, and the
\* report was written with the entry of that source
C12_Witness ==
    /\ pc = "done"
    /\ output /= NoOutput
    /\ \E t \in LaunchedNow :
          /\ HasWisp(issues[t])
          /\ Len(src[t].Issues) > 0
          /\ \E i \in 1..Len(sources) : EntryKey(sources[i]) = EntryKey(src[t])

\* the human report has been written
HumanDone == pc = "done" /\ output.mode = "human"

\* C13: in human mode with summary.total zero the output is the single "No
\* blocked work" line and nothing else; with total above zero that line is
\* not printed.
C13_NothingBlockedLine ==
    HumanDone =>
        IF summary.Total = 0
        THEN output.lines = <<[kind |-> "none"]>>
        ELSE LinesOf(output.lines, "none") = <<>>

\* a human report with total zero over a source that errored and a source
\* without issues
C13_Witness ==
    /\ HumanDone
    /\ summary.Total = 0
    /\ \E i, j \in 1..Len(sources) :
          sources[i].Error /= "" /\ sources[j].Error = ""

\* how far a goroutine has come
Rank(p) ==
    CASE p = "idle" -> 0
      [] p = "blocked" -> 1
      [] p = "lock" -> 2
      [] p = "locked" -> 3
      [] p = "appended" -> 4
      [] p = "unlocked" -> 5
      [] p = "done" -> 6

\* the goroutines that have appended their entry
Appended == {t \in Tasks : task[t] \in {"appended", "unlocked", "done"}}

\* an entry as it is compared with the entries the goroutines built: as it
\* is until the sorts, up to the order of its issues after them
Key(e) == IF Aggregated THEN EntryKey(e) ELSE e

\* one entry per goroutine that has appended, and one goroutine at a time
\* between mu.Lock and mu.Unlock
OneEntryEach ==
    /\ \A t \in Tasks : task[t] \in {"locked", "appended"} <=> mu = t
    /\ Len(sources) = Cardinality(Appended)
    /\ \A i \in 1..Len(sources) :
          Cardinality({j \in 1..Len(sources) : Key(sources[j]) = Key(sources[i])})
              = Cardinality({t \in Appended : Key(src[t]) = Key(sources[i])})
    /\ PastBarrier =>
          /\ Appended = LaunchedNow
          /\ Len(sources) = Cardinality(LaunchedNow)

\* a goroutine only moves forward, one position at a time, its query result
\* is set in its step out of "blocked" only, and until the barrier the result
\* slice only grows at its end, by the entry of the goroutine that appends
OnceOnly ==
    /\ \A t \in Tasks :
          /\ task'[t] /= task[t] => Rank(task'[t]) = Rank(task[t]) + 1
          /\ (issues'[t] /= issues[t] \/ qerr'[t] /= qerr[t]) =>
                task[t] = "blocked" /\ task'[t] = "lock"
          /\ (task[t] = "locked" /\ task'[t] = "appended") =>
                sources' = Append(sources, src'[t])
    /\ ~PastBarrier =>
          \/ sources' = sources
          \/ \E t \in Tasks : task[t] = "locked" /\ task'[t] = "appended"
    /\ Len(sources') >= Len(sources)
    /\ PastBarrier => Len(sources') = Len(sources)

\* C14: every selected source is queried once and recorded once.  After the
\* barrier, in every interleaving, the result slice holds one entry per
\* started goroutine; no entry is lost, duplicated or overwritten.
C14_ExactlyOnce == []OneEntryEach /\ [][OnceOnly]_vars

\* three goroutines have appended and the barrier is passed
C14_Witness ==
    /\ PastBarrier
    /\ Cardinality(LaunchedNow) = 3
    /\ Len(sources) = 3

\* the goroutines that were started and have not returned
Running == {t \in Tasks : task[t] \notin {"idle", "done"}}

\* C15: the orchestrating flow passes wg.Wait only when every started
\* goroutine has appended its entry, released the lock and returned.  While a
\* goroutine is running, no sort and no summary has been made and nothing has
\* been written.
C15_Barrier ==
    /\ wg = Cardinality(Running)
    /\ Running /= {} =>
          /\ pc = "rigs"
          /\ summary = ZeroSummary
          /\ output = NoOutput
    /\ PastBarrier =>
          /\ Running = {}
          /\ mu = NoTask
          /\ LaunchedNow = Selected
          /\ \A t \in LaunchedNow : \E i \in 1..Len(sources) : Key(sources[i]) = Key(src[t])
    /\ output /= NoOutput => pc = "done"

\* the report was written after two or more goroutines returned, one of them
\* with a failed query
C15_Witness ==
    /\ pc = "done"
    /\ output /= NoOutput
    /\ Cardinality(LaunchedNow) >= 2
    /\ \E t \in LaunchedNow : qerr[t] /= ""

\* the goroutine's next step reads its store: the Blocked() query (lines 118
\* / 141), or the getFormulaNames and getWispIDs lookups of the filter
\* pipeline (lines 126-128 / 149-151), which are made when the query succeeded
StoreAccessNext(t) ==
    \/ task[t] = "blocked"
    \/ task[t] = "locked" /\ qerr[t] = ""

\* C16: a goroutine holds the mutex only to append its entry: the mutex is
\* never held by a goroutine that is about to read its store, so no goroutine
\* waits for the mutex while another one reads its store.
C16_LockOnlyForAppend ==
    /\ \A t \in Tasks : mu = t => ~StoreAccessNext(t)
    /\ \A t, u \in Tasks :
          (task[u] = "lock" /\ StoreAccessNext(t)) => mu /= t

\* an issue that none of the three stages excludes
Survives(x, names, ids) ==
    /\ ~IsScaffold(x.ID, names)
    /\ x.ID \notin ids
    /\ ~Contains(x.ID, WispMarker)

\* the goroutines that have built their entry and still hold their lookups
Built == {t \in Tasks : task[t] \in {"appended", "unlocked"}}

\* C17: the list a goroutine records for a source whose query succeeded is
\* the raw result after scaffold exclusion, wisp-ID-set exclusion and
\* wisp-substring exclusion: the raw issues that no stage excludes, in raw
\* order and no more often than in the raw list.  For a failed query no stage
\* is applied: no lookup is made and the entry holds the error and no issue.
C17_PipelineResult ==
    \A t \in Built :
        /\ src[t].Name = t.name
        /\ \E i \in 1..Len(sources) : sources[i] = src[t]
        /\ IF qerr[t] /= ""
           THEN /\ src[t].Error = qerr[t]
                /\ src[t].Issues = <<>>
                /\ formulaNames[t] = {} /\ wispIDs[t] = {}
           ELSE /\ src[t].Error = ""
                /\ src[t].Issues
                      = SelectSeq(issues[t],
                                  LAMBDA x : Survives(x, formulaNames[t], wispIDs[t]))
                /\ \A x \in Range(src[t].Issues) :
                      Cardinality({i \in 1..Len(src[t].Issues) : src[t].Issues[i] = x})
                          <= Cardinality({i \in 1..Len(issues[t]) : issues[t][i] = x})

\* a goroutine has recorded a source of which each of the three stages
\* excluded another raw issue
C17_Witness ==
    \E t \in Built :
        /\ qerr[t] = ""
        /\ \E i, j, k \in 1..Len(issues[t]) :
              /\ IsScaffold(issues[t][i].ID, formulaNames[t])
              /\ issues[t][j].ID \in wispIDs[t]
              /\ Contains(issues[t][k].ID, WispMarker)
        /\ src[t].Issues = <<>>

\* a is b with some of its elements left out
RECURSIVE SubseqOf(_, _)
SubseqOf(a, b) ==
    IF a = <<>> THEN TRUE
    ELSE IF b = <<>> THEN FALSE
    ELSE IF Head(a) = Head(b) THEN SubseqOf(Tail(a), Tail(b))
    ELSE SubseqOf(a, Tail(b))

\* the positions of a list whose identifier does not contain "-wisp-"
Unmarked(iss) == {i \in 1..Len(iss) : ~Contains(iss[i].ID, WispMarker)}

\* C18: filterWispsByID is idempotent and keeps the order: applied to the raw
\* list of a goroutine it gives the issues without "-wisp-" in their
\* identifier, all of them and in raw order; applied again it changes
\* nothing, also on the recorded list; applied after filterWisps it brings
\* back no issue that filterWisps excluded.
C18_WispFilterIdempotent ==
    \A t \in Built :
        LET raw == issues[t]
            once == filterWispsByID(raw)
            byID == filterWisps(raw, wispIDs[t])
        IN  /\ filterWispsByID(once) = once
            /\ SubseqOf(once, raw)
            /\ Len(once) = Cardinality(Unmarked(raw))
            /\ Unmarked(once) = 1..Len(once)
            /\ qerr[t] = "" => filterWispsByID(src[t].Issues) = src[t].Issues
            /\ SubseqOf(filterWispsByID(byID), byID)
            /\ \A x \in Range(filterWispsByID(byID)) : x.ID \notin wispIDs[t]

\* the filter has run on a list with two "-wisp-" issues in a row, a repeated
\* issue and an issue that getWispIDs knows
C18_Witness ==
    \E t \in Built :
        /\ \E i \in 1..(Len(issues[t]) - 1) : {i, i + 1} \cap Unmarked(issues[t]) = {}
        /\ \E i \in 1..Len(issues[t]) : issues[t][i].ID \in wispIDs[t]
        /\ Len(src[t].Issues) < Cardinality(Unmarked(issues[t]))

\* the priority a part of the totals line is labelled with
PartPriority(part) ==
    CASE part.p = "P0" -> 0
      [] part.p = "P1" -> 1
      [] part.p = "P2" -> 2
      [] part.p = "P3" -> 3
      [] part.p = "P4" -> 4

\* C19: in human mode with total above zero one totals line is printed, as
\* the last line; it shows summary.total, which counts every listed issue
\* also when some fall in no bucket, and the buckets that are not zero, each
\* with its count, in the order P0..P4.
C19_TotalsLine ==
    HumanDone =>
        IF summary.Total = 0 THEN LinesOf(output.lines, "total") = <<>>
        ELSE LET last == output.lines[Len(output.lines)]
                 parts == last.parts
             IN  /\ Len(LinesOf(output.lines, "total")) = 1
                 /\ last.kind = "total"
                 /\ last.total = summary.Total
                 /\ last.total = Len(Flatten(sources))
                 /\ \A i, j \in 1..Len(parts) :
                       i < j => PartPriority(parts[i]) < PartPriority(parts[j])
                 /\ {PartPriority(parts[i]) : i \in 1..Len(parts)}
                       = {k \in 0..4 : CountPri(Flatten(sources), k) > 0}
                 /\ \A i \in 1..Len(parts) :
                       /\ parts[i].n = Bucket(summary, PartPriority(parts[i]))
                       /\ parts[i].n = CountPri(Flatten(sources), PartPriority(parts[i]))

\* a human report whose totals line shows more issues than its parts add up
\* to, behind the section of a source
C19_Witness ==
    /\ HumanDone
    /\ summary.Total > BucketSum(summary)
    /\ BucketSum(summary) > 0
    /\ Len(LinesOf(output.lines, "source")) > 0
    /\ output.lines[Len(output.lines)].kind = "total"

\* the command has ended: it failed on the rig filter, or every started
\* goroutine has returned, the mutex is free and the report is written
Ended ==
    \/ pc = "failed" /\ NoSuchRig
    \/ /\ pc = "done"
       /\ output /= NoOutput
       /\ Running = {}
       /\ LaunchedNow = Selected
       /\ mu = NoTask

\* C20: when every store access returns and the scheduling is fair, every
\* started goroutine gets the mutex, appends, releases it and returns, the
\* barrier is passed and the report is written: no interleaving blocks on
\* the mutex or leaves wg.Wait waiting.
C20_EventuallyEmits == <>Ended

\* a JSON report was written after three goroutines went through the mutex
C20_Witness ==
    /\ pc = "done"
    /\ output.mode = "json"
    /\ Cardinality({t \in Tasks : task[t] = "done"}) = 3
    /\ mu = NoTask

====
